---- MODULE Spec2Model ----
(***************************************************************************)
(* Model of src/main.py: the bounded-concurrency download pipeline of the  *)
(* Snapchat memories downloader (download_all / process_and_update /       *)
(* download_memory / add_exif_data / set_video_metadata).                  *)
(*                                                                         *)
(* The program runs on one asyncio event loop: exactly one coroutine runs  *)
(* at a time and control changes hands only at an await that suspends.     *)
(* `running` is the coroutine that holds the loop thread (0: the loop is   *)
(* idle and picks any coroutine that is ready).  Strings the code inspects *)
(* (content type, archive entry names, media type) are sequences of        *)
(* character codes.  Stats.mb is kept in payload length units instead of   *)
(* the float bytes/1024/1024.                                              *)
(***************************************************************************)
EXTENDS Integers, Sequences, FiniteSets, TLC

\* ---- bounds -------------------------------------------------------------
NumItems == 2
MaxK == 2
NumDates == 1
MaxFaults == 1

Items == 1..NumItems
Dates == 1..NumDates
Main == NumItems + 1          \* id of the download_all coroutine
None == "none"

\* ---- strings as character codes ----------------------------------------
S_Image == <<73, 109, 97, 103, 101>>
S_Video == <<86, 105, 100, 101, 111>>
S_Gif == <<71, 73, 70>>
S_image == <<105, 109, 97, 103, 101>>
S_video == <<118, 105, 100, 101, 111>>
S_ZipMime == <<97, 112, 112, 108, 105, 99, 97, 116, 105, 111, 110, 47, 122, 105, 112>>
S_ZipMimeMixed == <<65, 112, 112, 108, 105, 99, 97, 116, 105, 111, 110, 47, 90, 73, 80>>
S_Jpeg == <<105, 109, 97, 103, 101, 47, 106, 112, 101, 103>>
S_DashMain == <<45, 109, 97, 105, 110>>
S_DashOverlay == <<45, 111, 118, 101, 114, 108, 97, 121>>
N_Main == <<120, 45, 109, 97, 105, 110>>
N_Overlay == <<120, 45, 111, 118, 101, 114, 108, 97, 121>>
N_UpperMain == <<120, 45, 77, 65, 73, 78>>
N_Thumb == <<116, 104, 117, 109, 98>>
PkMagic == <<80, 75, 3, 4>>
JfifMagic == <<255, 216, 255, 224>>

Lower(s) == [k \in DOMAIN s |-> IF s[k] \in 65..90 THEN s[k] + 32 ELSE s[k]]

StartsWith(s, p) == Len(s) >= Len(p) /\ SubSeq(s, 1, Len(p)) = p

Contains(sub, s) ==
  \E k \in 1..(Len(s) - Len(sub) + 1) : SubSeq(s, k, k + Len(sub) - 1) = sub

\* a lookup that falls back to the first entry when nothing matches
FirstWithFallback(sub, names) ==
  IF \E k \in DOMAIN names : Contains(sub, names[k])
  THEN CHOOSE k \in DOMAIN names :
         /\ Contains(sub, names[k])
         /\ \A j \in 1..(k - 1) : ~Contains(sub, names[j])
  ELSE IF names # <<>> THEN 1 ELSE 0

\* next((f for f in files if sub in f), None): index of the first match, 0 for None
FirstWith(sub, names) ==
  IF \E k \in DOMAIN names : Contains(sub, names[k])
  THEN CHOOSE k \in DOMAIN names :
         /\ Contains(sub, names[k])
         /\ \A j \in 1..(k - 1) : ~Contains(sub, names[j])
  ELSE 0

\* ---- Memory ---------------------------------------------------------------
MediaTypes == {S_Image, S_Video, S_Gif}
\* an optional coordinate: <<>> for None, <<v>> for v millionths of a degree;
\* the records of the download run carry no coordinates
NoCoord == <<>>
Memory == [date : Dates, media_type : MediaTypes, latitude : {NoCoord}, longitude : {NoCoord}]

Ext(m) == IF Lower(m.media_type) = S_image THEN ".jpg" ELSE ".mp4"
filenameDateOnly(m) == <<m.date, ".mp4">>
filename(m) == <<m.date, Ext(m)>>
Paths == Dates \X {".jpg", ".mp4"}
Supported(m) == Lower(m.media_type) \in {S_image, S_video}

\* ---- what a fetch can deliver -------------------------------------------
\* ctype: the Content-Type header (<<>> when absent); head: content[:4];
\* len: len(content); zipOk: zipfile can open it; names: zf.namelist();
\* overlayLen: length of the overlay entry's data.
Payloads ==
  { [ctype |-> S_Jpeg, head |-> JfifMagic, len |-> 1, zipOk |-> FALSE,
     names |-> <<>>, overlayLen |-> 0],
    [ctype |-> S_ZipMimeMixed, head |-> PkMagic, len |-> 2, zipOk |-> TRUE,
     names |-> <<N_Overlay, N_Main>>, overlayLen |-> 1],
    [ctype |-> <<>>, head |-> PkMagic, len |-> 2, zipOk |-> TRUE,
     names |-> <<N_Thumb, N_Main>>, overlayLen |-> 0] }

\* payloads that are wrong: an archive without a "-main" entry, and bytes
\* declared as an archive that zipfile cannot open
BadPayloads ==
  { [ctype |-> S_Jpeg, head |-> PkMagic, len |-> 1, zipOk |-> TRUE,
     names |-> <<N_UpperMain, N_Overlay>>, overlayLen |-> 1],
    [ctype |-> S_ZipMime, head |-> PkMagic, len |-> 1, zipOk |-> TRUE,
     names |-> <<N_Thumb>>, overlayLen |-> 0],
    [ctype |-> S_ZipMime, head |-> JfifMagic, len |-> 1, zipOk |-> FALSE,
     names |-> <<>>, overlayLen |-> 0] }

NoPayload == [ctype |-> <<>>, head |-> <<>>, len |-> 0, zipOk |-> FALSE,
              names |-> <<>>, overlayLen |-> 0]

FetchErrors == {"HTTPStatusError", "ConnectError", "TimeoutException"}

\* Payload Classifier, lines 190-193
is_zipByHeader(r) == StartsWith(Lower(r.ctype), S_ZipMime)
is_zip(r) == StartsWith(Lower(r.ctype), S_ZipMime) \/ r.head = PkMagic


\* ---- files ----------------------------------------------------------------
\* A file: what it holds (data), the item whose execution produced it (by, 0
\* for a file that was there before the run) and whether metadata is embedded.
Absent == [data |-> "absent", by |-> 0, meta |-> FALSE]
OldFile == [data |-> "old", by |-> 0, meta |-> FALSE]
Asset(d, i) == [data |-> d, by |-> i, meta |-> FALSE]

NoRet == [set |-> FALSE, success |-> FALSE, bytes |-> 0]
Ret(ok, n) == [set |-> TRUE, success |-> ok, bytes |-> n]

\* per-item observations kept for the properties (not read by the program)
Hist0 == [existed |-> FALSE, skipped |-> 0, acquires |-> 0, releases |-> 0, fetches |-> 0,
          writes |-> 0, err |-> None, merge |-> None, persisted |-> None,
          metaCalls |-> 0, metaRes |-> None, counted |-> 0, gps |-> <<>>, remux |-> None]

VARIABLES memories, max_concurrent, add_exif, skip_existing,
          files, temps, tmpdir, stats, to_download, mainpc, idx,
          pc, running, sem_value, sem_waiters,
          resp, hasOverlay, bytes_downloaded, exc, ret, reg,
          hist, reported, faults

vars == <<memories, max_concurrent, add_exif, skip_existing,
          files, temps, tmpdir, stats, to_download, mainpc, idx,
          pc, running, sem_value, sem_waiters,
          resp, hasOverlay, bytes_downloaded, exc, ret, reg,
          hist, reported, faults>>

config == <<memories, max_concurrent, add_exif, skip_existing>>
PreexistingPaths == {<<1, ".jpg">>}
semvars == <<sem_value, sem_waiters>>
mainvars == <<stats, to_download, mainpc, idx, reported>>
fsvars == <<files, temps, tmpdir>>
locals == <<resp, hasOverlay, bytes_downloaded, exc, ret, reg>>

output_path(i) == filename(memories[i])
temp_path(i) == output_path(i)      \* video_path.with_suffix(".temp.mp4"), keyed by the video's path
media(i) == Lower(memories[i].media_type)

\* line 294: asyncio.Semaphore(max_concurrent), the number of permits
SemaphoreOneMore(n) == n + 1
Semaphore(n) == n

\* ---- the event loop ---------------------------------------------------------
\* Labels at which a coroutine is suspended in an await whose result is not
\* ready yet: client.get (line 185) and the exit of the AsyncClient block (184).
SuspendsInUpdate(l) == l \in {"get", "client_exit", "count_write", "mb_write"}
Suspends(l) == l \in {"get", "client_exit"}

\* Labels at which a coroutine does not hold the loop thread.
Parked(l) == Suspends(l) \/ l \in {"none", "start", "wait_sem", "woken", "done", "raised"}

\* The loop runs the callbacks of its ready queue in the order they were
\* queued and polls for I/O only after that: the tasks gather created (line
\* 332) take their first step in the order of the list, before any response or
\* wake-up is handled.
FirstSteps == {j \in Items : pc[j] = "start"}
Turn(i) ==
  IF FirstSteps = {} THEN TRUE
  ELSE pc[i] = "start" /\ \A j \in FirstSteps : i <= j

\* Coroutine i may take its next step: the loop resumes a ready coroutine only
\* when no coroutine is running; a running coroutine continues on its own.
Sched(i) == IF Parked(pc[i]) THEN running = 0 /\ Turn(i) ELSE running = i

Goto(i, l) ==
  /\ pc' = [pc EXCEPT ![i] = l]
  /\ running' = IF Parked(l) THEN 0 ELSE i

H(i, f, v) == hist' = [hist EXCEPT ![i][f] = v]

\* the environment misbehaves at most MaxFaults times in a run; a record of
\* an unknown media kind in the manifest counts as one of these
Fault == faults < MaxFaults /\ faults' = faults + 1
NoFault == UNCHANGED faults

Init ==
  /\ memories \in [Items -> Memory]
  /\ Cardinality({i \in Items : ~Supported(memories[i])}) <= MaxFaults
  /\ max_concurrent \in 1..MaxK
  /\ add_exif \in BOOLEAN
  /\ skip_existing \in BOOLEAN
  /\ \E pre \in SUBSET PreexistingPaths :
       files = [p \in Paths |-> IF p \in pre THEN OldFile ELSE Absent]
  /\ temps = [p \in Paths |-> Absent]
  /\ tmpdir = [i \in Items |-> {}]
  /\ stats = [downloaded |-> 0, skipped |-> 0, failed |-> 0, mb |-> 0]
  /\ to_download = <<>>
  /\ mainpc = "scan"
  /\ idx = 1
  /\ pc = [i \in Items |-> "none"]
  /\ running = Main
  /\ sem_value = Semaphore(max_concurrent)
  /\ sem_waiters = <<>>
  /\ resp = [i \in Items |-> NoPayload]
  /\ hasOverlay = [i \in Items |-> FALSE]
  /\ bytes_downloaded = [i \in Items |-> 0]
  /\ exc = [i \in Items |-> None]
  /\ ret = [i \in Items |-> NoRet]
  /\ reg = [i \in Items |-> 0]
  /\ hist = [i \in Items |-> Hist0]
  /\ reported = FALSE
  /\ faults = Cardinality({i \in Items : ~Supported(memories[i])})

\* ---- download_all -----------------------------------------------------------
\* line 301
SkipTestNever(i) == FALSE
SkipTest(i) == skip_existing /\ files[output_path(i)] # Absent

\* lines 299-304: one iteration of the scan loop
ScanRecord ==
  /\ mainpc = "scan" /\ running = Main /\ idx <= NumItems
  /\ IF SkipTest(idx)
     THEN /\ stats' = [stats EXCEPT !.skipped = @ + 1]
          /\ hist' = [hist EXCEPT ![idx].skipped = @ + 1,
                                   ![idx].existed = files[output_path(idx)] # Absent]
          /\ UNCHANGED to_download
     ELSE /\ to_download' = Append(to_download, idx)
          /\ H(idx, "existed", files[output_path(idx)] # Absent)
          /\ UNCHANGED stats
  /\ idx' = idx + 1
  /\ UNCHANGED <<config, fsvars, mainpc, pc, running, semvars, locals, reported, faults>>

\* line 306, `if not to_download`
NothingToDownloadOrOne(td) == Len(td) <= 1
NothingToDownload(td) == td = <<>>

\* lines 306-308: nothing to download, return without a summary
ReturnEarly ==
  /\ mainpc = "scan" /\ running = Main /\ idx > NumItems
  /\ NothingToDownload(to_download)
  /\ mainpc' = "end"
  /\ running' = 0
  /\ UNCHANGED <<config, fsvars, stats, to_download, idx, pc, semvars, locals, hist, reported, faults>>

Scheduled == {to_download[k] : k \in DOMAIN to_download}

\* lines 310-332: gather wraps every coroutine in a task and download_all waits
Gather ==
  /\ mainpc = "scan" /\ running = Main /\ idx > NumItems
  /\ ~NothingToDownload(to_download)
  /\ pc' = [i \in Items |-> IF i \in Scheduled THEN "start" ELSE pc[i]]
  /\ mainpc' = "gather"
  /\ running' = 0
  /\ UNCHANGED <<config, fsvars, stats, to_download, idx, semvars, locals, hist, reported, faults>>

\* line 332: gather returns when every task is done, or raises the first
\* exception a task ended with (return_exceptions is not set)
GatherReturn ==
  /\ mainpc = "gather" /\ running = 0
  /\ \/ \A i \in Scheduled : pc[i] = "done"
     \/ \E i \in Scheduled : pc[i] = "raised"
  /\ mainpc' = IF \E i \in Scheduled : pc[i] = "raised" THEN "aborted" ELSE "report"
  /\ running' = IF \E i \in Scheduled : pc[i] = "raised" THEN 0 ELSE Main
  /\ UNCHANGED <<config, fsvars, stats, to_download, idx, pc, semvars, locals, hist, reported, faults>>

\* lines 334-341: the final summary
Report ==
  /\ mainpc = "report" /\ running = Main
  /\ reported' = TRUE
  /\ mainpc' = "end"
  /\ running' = 0
  /\ UNCHANGED <<config, fsvars, stats, to_download, idx, pc, semvars, locals, hist, faults>>

\* ---- asyncio.Semaphore (line 179, line 294) ---------------------------------
locked == sem_value = 0 \/ sem_waiters # <<>>

Remove(q, i) == SelectSeq(q, LAMBDA x : x # i)

\* _wake_up_next on the state (value v, waiters q, labels l): the first waiter
\* still waiting takes a permit and becomes ready
WakeValue(v, q, l) == IF \E k \in DOMAIN q : l[q[k]] = "wait_sem" THEN v - 1 ELSE v
WakePcNobody(q, l) == l
WakePc(q, l) ==
  IF \E k \in DOMAIN q : l[q[k]] = "wait_sem"
  THEN LET k == CHOOSE k \in DOMAIN q :
                  /\ l[q[k]] = "wait_sem"
                  /\ \A j \in 1..(k - 1) : l[q[j]] # "wait_sem"
       IN [l EXCEPT ![q[k]] = "woken"]
  ELSE l

\* line 179, `async with semaphore` entered by a task that runs for the first
\* time: take a permit if the semaphore is not locked, else queue and suspend
Acquire(i) ==
  /\ pc[i] = "start" /\ Sched(i)
  /\ IF ~locked
     THEN /\ sem_value' = sem_value - 1
          /\ UNCHANGED sem_waiters
          /\ H(i, "acquires", hist[i].acquires + 1)
          /\ Goto(i, "try")
     ELSE /\ sem_waiters' = Append(sem_waiters, i)
          /\ UNCHANGED <<sem_value, hist>>
          /\ Goto(i, "wait_sem")
  /\ UNCHANGED <<config, fsvars, mainvars, locals, faults>>

\* line 179, a queued task whose future was set resumes inside acquire():
\* it leaves the queue and, when a permit is left, wakes the next waiter
AcquireWoken(i) ==
  /\ pc[i] = "woken" /\ Sched(i)
  /\ LET q == Remove(sem_waiters, i)
         l == [pc EXCEPT ![i] = "try"]
     IN /\ sem_waiters' = q
        /\ sem_value' = IF sem_value > 0 THEN WakeValue(sem_value, q, l) ELSE sem_value
        /\ pc' = IF sem_value > 0 THEN WakePc(q, l) ELSE l
  /\ running' = i
  /\ H(i, "acquires", hist[i].acquires + 1)
  /\ UNCHANGED <<config, fsvars, mainvars, locals, faults>>

\* line 179: __aexit__ of the semaphore calls release() whether the block
\* ended with a successful outcome or not
ReleasedOnSuccess(v, ok) == IF ok THEN v + 1 ELSE v
Released(v, ok) == v + 1

\* Leaving the `async with semaphore` block (line 179): release() and then
\* either the return value reaches process_and_update (line 318) or the
\* exception that was not caught ends the task
Release(i) ==
  /\ pc[i] = "release" /\ Sched(i)
  /\ LET l == [pc EXCEPT ![i] = IF exc[i] = None THEN "count_read" ELSE "raised"]
     IN /\ sem_value' = WakeValue(Released(sem_value, ret[i].success), sem_waiters, l)
        /\ pc' = WakePc(sem_waiters, l)
  /\ running' = IF exc[i] = None THEN i ELSE 0
  /\ H(i, "releases", hist[i].releases + 1)
  /\ UNCHANGED <<config, fsvars, mainvars, sem_waiters, locals, faults>>

\* the exceptions the pipeline raises, all subclasses of Exception (the two
\* ValueErrors are told apart by their message)
ExceptionClasses == FetchErrors \cup {"BadZipFile", "ValueError_NoMain", "ValueError_Unsupported",
                                      "UnidentifiedImageError", "OSError", "FileNotFoundError",
                                      "CalledProcessError", "InvalidImageDataError"}

\* line 280, `except Exception`
CaughtNetworkOnly(e) == e \in FetchErrors
Caught(e) == e \in ExceptionClasses

\* lines 118 and 173, `except Exception` inside the Metadata Writer
MetaCaughtNothing(e) == FALSE
MetaCaught(e) == e \in ExceptionClasses

\* line 282
FailedOutcomeSuccess == Ret(TRUE, 0)
FailedOutcome == Ret(FALSE, 0)

\* lines 321-324: the counter that takes the increment
CountedDownloadedOnly(st, ok, r) == IF ok THEN [st EXCEPT !.downloaded = r + 1] ELSE st
Counted(st, ok, r) ==
  IF ok THEN [st EXCEPT !.downloaded = r + 1] ELSE [st EXCEPT !.failed = r + 1]

\* ---- download_memory --------------------------------------------------------
\* an exception raised inside the AsyncClient block: the block's __aexit__
\* (line 184) is awaited before the handler of line 280 runs
Raise(i, e) ==
  /\ exc' = [exc EXCEPT ![i] = e]
  /\ Goto(i, "client_exit")

\* the same inside the TemporaryDirectory block of line 219, whose cleanup
\* comes first
RaiseInTmp(i, e) ==
  /\ exc' = [exc EXCEPT ![i] = e]
  /\ Goto(i, "tmp_cleanup")

\* lines 181-185: build the output path, open the client and send the request
FetchStart(i) ==
  /\ pc[i] = "try" /\ Sched(i)
  /\ H(i, "fetches", hist[i].fetches + 1)
  /\ Goto(i, "get")
  /\ UNCHANGED <<config, fsvars, mainvars, semvars, locals, faults>>

\* lines 185-187: the request ends, with a connection failure or timeout, a
\* non-2xx status (raise_for_status) or a 2xx response
FetchReturn(i) ==
  /\ pc[i] = "get" /\ Sched(i)
  /\ \/ \E e \in FetchErrors :
          /\ Fault
          /\ Raise(i, e)
          /\ UNCHANGED resp
     \/ \E r \in Payloads :
          /\ NoFault
          /\ resp' = [resp EXCEPT ![i] = r]
          /\ Goto(i, "classify")
          /\ UNCHANGED exc
     \/ \E r \in BadPayloads :
          /\ Fault
          /\ resp' = [resp EXCEPT ![i] = r]
          /\ Goto(i, "classify")
          /\ UNCHANGED exc
  /\ UNCHANGED <<config, fsvars, mainvars, semvars, hasOverlay, bytes_downloaded, ret, reg, hist>>

\* lines 190-195 and 261
Classify(i) ==
  /\ pc[i] = "classify" /\ Sched(i)
  /\ Goto(i, IF is_zip(resp[i]) THEN "zip_open" ELSE "write_plain")
  /\ UNCHANGED <<config, fsvars, mainvars, semvars, locals, hist, faults>>

\* Path.write_bytes / Image.save on the output path: the bytes d are written,
\* or the write fails with an OSError and leaves the path untouched or
\* holding a truncated file
WriteOutput(i, d, next, inTmp) ==
  \/ /\ NoFault
     /\ files' = [files EXCEPT ![output_path(i)] = Asset(d, i)]
     /\ hist' = [hist EXCEPT ![i].writes = @ + 1, ![i].persisted = d]
     /\ Goto(i, next)
     /\ UNCHANGED exc
  \/ /\ Fault
     /\ \/ /\ files' = [files EXCEPT ![output_path(i)] = Asset("partial", i)]
           /\ H(i, "writes", hist[i].writes + 1)
        \/ UNCHANGED <<files, hist>>
     /\ IF inTmp THEN RaiseInTmp(i, "OSError") ELSE Raise(i, "OSError")

\* lines 196-205: open the archive, pick the base and the overlay entry
ZipOpen(i) ==
  /\ pc[i] = "zip_open" /\ Sched(i)
  /\ LET r == resp[i]
         main_file == FirstWith(S_DashMain, r.names)
         overlay_file == FirstWith(S_DashOverlay, r.names)
     IN IF ~r.zipOk
        THEN /\ Raise(i, "BadZipFile")
             /\ UNCHANGED hasOverlay
        ELSE IF main_file = 0
        THEN /\ Raise(i, "ValueError_NoMain")
             /\ UNCHANGED hasOverlay
        ELSE /\ hasOverlay' = [hasOverlay EXCEPT ![i] = overlay_file # 0 /\ r.overlayLen > 0]
             /\ Goto(i, "dispatch")
             /\ UNCHANGED exc
  /\ UNCHANGED <<config, fsvars, mainvars, semvars, resp, bytes_downloaded, ret, reg, hist, faults>>

\* lines 207, 217, 256-257: select the compositor by media kind
Dispatch(i) ==
  /\ pc[i] = "dispatch" /\ Sched(i)
  /\ IF media(i) = S_image THEN Goto(i, "img_decode") /\ UNCHANGED exc
     ELSE IF media(i) = S_video THEN Goto(i, "vid_tmp") /\ UNCHANGED exc
     ELSE Raise(i, "ValueError_Unsupported")
  /\ UNCHANGED <<config, fsvars, mainvars, semvars, resp, hasOverlay, bytes_downloaded, ret, reg, hist, faults>>

\* lines 209-214: decode, resize, composite, flatten; a decode can fail
ImgDecode(i) ==
  /\ pc[i] = "img_decode" /\ Sched(i)
  /\ \/ NoFault /\ Goto(i, "img_save") /\ UNCHANGED exc
     \/ Fault /\ Raise(i, "UnidentifiedImageError")
  /\ UNCHANGED <<config, fsvars, mainvars, semvars, resp, hasOverlay, bytes_downloaded, ret, reg, hist>>

\* line 215
ImgSave(i) ==
  /\ pc[i] = "img_save" /\ Sched(i)
  /\ WriteOutput(i, IF hasOverlay[i] THEN "jpeg_merged" ELSE "jpeg_main", "bytes", FALSE)
  /\ UNCHANGED <<config, temps, tmpdir, mainvars, semvars, resp, hasOverlay, bytes_downloaded, ret, reg>>

\* lines 219-223: the temporary directory and main.mp4 in it
VidTmp(i) ==
  /\ pc[i] = "vid_tmp" /\ Sched(i)
  /\ \/ /\ NoFault
        /\ tmpdir' = [tmpdir EXCEPT ![i] = {".", "main.mp4"}]
        /\ Goto(i, IF hasOverlay[i] THEN "vid_overlay" ELSE "vid_main_only")
        /\ UNCHANGED exc
     \/ /\ Fault
        /\ tmpdir' = [tmpdir EXCEPT ![i] = {"."}]
        /\ RaiseInTmp(i, "OSError")
  /\ UNCHANGED <<config, files, temps, mainvars, semvars, resp, hasOverlay, bytes_downloaded, ret, reg, hist>>

\* lines 225-230: overlay.png is written and subprocess.run starts the tool
VidOverlay(i) ==
  /\ pc[i] = "vid_overlay" /\ Sched(i)
  /\ tmpdir' = [tmpdir EXCEPT ![i] = @ \cup {"overlay.png"}]
  /\ Goto(i, "merge_run")
  /\ UNCHANGED <<config, files, temps, mainvars, semvars, locals, hist, faults>>

\* lines 230-249: subprocess.run returns: exit status 0, a non-zero status
\* (CalledProcessError, caught at line 249) or the tool cannot be started
\* (FileNotFoundError, not caught there)
MergeReturn(i) ==
  /\ pc[i] = "merge_run" /\ Sched(i)
  /\ \/ /\ NoFault
        /\ tmpdir' = [tmpdir EXCEPT ![i] = @ \cup {"merged.mp4"}]
        /\ H(i, "merge", "zero")
        /\ Goto(i, "merge_copy")
        /\ UNCHANGED exc
     \/ /\ Fault
        /\ \E left \in SUBSET {"merged.mp4"} : tmpdir' = [tmpdir EXCEPT ![i] = @ \cup left]
        /\ H(i, "merge", "nonzero")
        /\ Goto(i, "fallback_write")
        /\ UNCHANGED exc
     \/ /\ Fault
        /\ H(i, "merge", "missing")
        /\ RaiseInTmp(i, "FileNotFoundError")
        /\ UNCHANGED tmpdir
  /\ UNCHANGED <<config, files, temps, mainvars, semvars, resp, hasOverlay, bytes_downloaded, ret, reg>>

\* line 248
MergeCopy(i) ==
  /\ pc[i] = "merge_copy" /\ Sched(i)
  /\ WriteOutput(i, "merged_video", "tmp_cleanup", TRUE)
  /\ UNCHANGED <<config, temps, tmpdir, mainvars, semvars, resp, hasOverlay, bytes_downloaded, ret, reg>>

\* line 251: what the handler of the failed merge writes
FallbackAssetMerged == "merged_video"
FallbackAsset == "main_data"

\* lines 249-251
FallbackWrite(i) ==
  /\ pc[i] = "fallback_write" /\ Sched(i)
  /\ WriteOutput(i, FallbackAsset, "tmp_cleanup", TRUE)
  /\ UNCHANGED <<config, temps, tmpdir, mainvars, semvars, resp, hasOverlay, bytes_downloaded, ret, reg>>

\* lines 252-254
VidMainOnly(i) ==
  /\ pc[i] = "vid_main_only" /\ Sched(i)
  /\ WriteOutput(i, "main_data", "tmp_cleanup", TRUE)
  /\ UNCHANGED <<config, temps, tmpdir, mainvars, semvars, resp, hasOverlay, bytes_downloaded, ret, reg>>

\* line 219: leaving the TemporaryDirectory block removes the directory
TmpCleanup(i) ==
  /\ pc[i] = "tmp_cleanup" /\ Sched(i)
  /\ tmpdir' = [tmpdir EXCEPT ![i] = {}]
  /\ Goto(i, IF exc[i] = None THEN "bytes" ELSE "client_exit")
  /\ UNCHANGED <<config, files, temps, mainvars, semvars, locals, hist, faults>>

\* line 259
Bytes(i) ==
  /\ pc[i] = "bytes" /\ Sched(i)
  /\ bytes_downloaded' = [bytes_downloaded EXCEPT ![i] = resp[i].len]
  /\ Goto(i, "utime")
  /\ UNCHANGED <<config, fsvars, mainvars, semvars, resp, hasOverlay, exc, ret, reg, hist, faults>>

\* lines 263-264
WritePlain(i) ==
  /\ pc[i] = "write_plain" /\ Sched(i)
  /\ WriteOutput(i, "content", "utime", FALSE)
  /\ bytes_downloaded' = [bytes_downloaded EXCEPT ![i] = IF exc'[i] = None THEN resp[i].len ELSE @]
  /\ UNCHANGED <<config, temps, tmpdir, mainvars, semvars, resp, hasOverlay, ret, reg>>

\* lines 267-275: set the file times, then call the Metadata Writer of the kind
Utime(i) ==
  /\ pc[i] = "utime" /\ Sched(i)
  /\ IF add_exif /\ media(i) = S_image
     THEN Goto(i, "exif") /\ H(i, "metaCalls", hist[i].metaCalls + 1)
     ELSE IF add_exif /\ media(i) = S_video
     THEN Goto(i, "vmeta_run") /\ H(i, "metaCalls", hist[i].metaCalls + 1)
     ELSE Goto(i, "return_ok") /\ UNCHANGED hist
  /\ UNCHANGED <<config, fsvars, mainvars, semvars, locals, faults>>

\* what an exception inside the Metadata Writer leads to: swallowed by the
\* writer's own handler, or raised into download_memory
MetaFail(i, e) ==
  IF MetaCaught(e)
  THEN Goto(i, "return_ok") /\ UNCHANGED exc
  ELSE Raise(i, e)

\* ---- add_exif_data ----------------------------------------------------------
\* Coordinates and seconds are fixed-point numbers with six decimals, the
\* precision of round(..., 6) on line 72: the integer v stands for v / Micro.
Micro == 1000000
Hundred == 100
Abs(v) == IF v < 0 THEN 0 - v ELSE v

\* lines 67-73: <<d, m, s>> with s in millionths of a second; on this grid
\* (m_float - m) * 60 has six decimals and round(..., 6) keeps it
to_deg(value) ==
  LET d == Abs(value) \div Micro
      m_float == (Abs(value) - d * Micro) * 60
      m == m_float \div Micro
      s == (m_float - m * Micro) * 60
  IN <<d, m, s>>

\* lines 75-82: int(s * 100) drops the fraction of the hundredths
deg_to_rational(dms) ==
  <<<<dms[1], 1>>, <<dms[2], 1>>, <<dms[3] \div (Micro \div Hundred), Hundred>>>>

\* lines 98-108: the GPS entries written when both coordinates are present
\* (<<>> when none is written)
GPS(m) ==
  IF m.latitude # NoCoord /\ m.longitude # NoCoord
  THEN <<[lat_ref |-> IF m.latitude[1] >= 0 THEN "N" ELSE "S",
          lon_ref |-> IF m.longitude[1] >= 0 THEN "E" ELSE "W",
          lat |-> deg_to_rational(to_deg(m.latitude[1])),
          lon |-> deg_to_rational(to_deg(m.longitude[1]))]>>
  ELSE <<>>

\* lines 84-112 and 118-119: build the EXIF container and insert it into the
\* file; any exception is printed and swallowed
ExifInsert(i) ==
  /\ pc[i] = "exif" /\ Sched(i)
  /\ \/ /\ NoFault
        /\ files' = [files EXCEPT ![output_path(i)].meta = TRUE]
        /\ H(i, "gps", GPS(memories[i]))
        /\ Goto(i, "exif_utime")
        /\ UNCHANGED exc
     \/ /\ Fault
        /\ H(i, "metaRes", "failed")
        /\ MetaFail(i, "InvalidImageDataError")
        /\ UNCHANGED files
  /\ UNCHANGED <<config, temps, tmpdir, mainvars, semvars, resp, hasOverlay, bytes_downloaded, ret, reg>>

\* lines 115-119: os.utime, which can fail as well
ExifUtime(i) ==
  /\ pc[i] = "exif_utime" /\ Sched(i)
  /\ \/ NoFault /\ H(i, "metaRes", "ok") /\ Goto(i, "return_ok") /\ UNCHANGED exc
     \/ Fault /\ H(i, "metaRes", "failed") /\ MetaFail(i, "OSError")
  /\ UNCHANGED <<config, fsvars, mainvars, semvars, resp, hasOverlay, bytes_downloaded, ret, reg>>

\* ---- set_video_metadata -----------------------------------------------------
\* line 162, check=True: a failed run raises instead of returning
CheckedRunOff == FALSE
CheckedRun == TRUE

\* lines 128-165 and 173-174: subprocess.run returns; on success the temporary
\* path holds the remuxed copy, on failure (non-zero exit or the tool cannot be
\* started) the exception is printed and swallowed and the temporary path is
\* untouched or holds a truncated file
VmetaReturn(i) ==
  /\ pc[i] = "vmeta_run" /\ Sched(i)
  /\ \/ /\ NoFault
        /\ temps' = [temps EXCEPT ![temp_path(i)] =
                       [files[output_path(i)] EXCEPT !.meta = TRUE]]
        /\ H(i, "remux", "ok")
        /\ Goto(i, "vmeta_replace")
        /\ UNCHANGED exc
     \/ /\ Fault
        /\ \/ temps' = [temps EXCEPT ![temp_path(i)] = Asset("partial", i)]
           \/ UNCHANGED temps
        /\ IF CheckedRun
           THEN /\ hist' = [hist EXCEPT ![i].metaRes = "failed", ![i].remux = "failed"]
                /\ MetaFail(i, "CalledProcessError")
           ELSE /\ H(i, "remux", "failed")
                /\ Goto(i, "vmeta_replace")
                /\ UNCHANGED exc
  /\ UNCHANGED <<config, files, tmpdir, mainvars, semvars, resp, hasOverlay, bytes_downloaded, ret, reg>>

\* line 168: temp_path.replace(video_path)
VmetaReplace(i) ==
  /\ pc[i] = "vmeta_replace" /\ Sched(i)
  /\ files' = [files EXCEPT ![output_path(i)] = temps[temp_path(i)]]
  /\ temps' = [temps EXCEPT ![temp_path(i)] = Absent]
  /\ Goto(i, "vmeta_utime")
  /\ UNCHANGED <<config, tmpdir, mainvars, semvars, locals, hist, faults>>

\* lines 171-174: os.utime, which can fail as well
VmetaUtime(i) ==
  /\ pc[i] = "vmeta_utime" /\ Sched(i)
  /\ \/ NoFault /\ H(i, "metaRes", "ok") /\ Goto(i, "return_ok") /\ UNCHANGED exc
     \/ Fault /\ H(i, "metaRes", "failed") /\ MetaFail(i, "OSError")
  /\ UNCHANGED <<config, fsvars, mainvars, semvars, resp, hasOverlay, bytes_downloaded, ret, reg>>

\* ---- the item boundary ------------------------------------------------------
\* line 278: the return value is fixed, then the AsyncClient block is left
ReturnOk(i) ==
  /\ pc[i] = "return_ok" /\ Sched(i)
  /\ ret' = [ret EXCEPT ![i] = Ret(TRUE, bytes_downloaded[i])]
  /\ Goto(i, "client_exit")
  /\ UNCHANGED <<config, fsvars, mainvars, semvars, resp, hasOverlay, bytes_downloaded, exc, reg, hist, faults>>

\* line 184: the AsyncClient block has been closed
ClientExit(i) ==
  /\ pc[i] = "client_exit" /\ Sched(i)
  /\ Goto(i, IF exc[i] = None THEN "release" ELSE "except")
  /\ UNCHANGED <<config, fsvars, mainvars, semvars, locals, hist, faults>>

\* lines 280-282
Except(i) ==
  /\ pc[i] = "except" /\ Sched(i)
  /\ H(i, "err", exc[i])
  /\ IF Caught(exc[i])
     THEN /\ ret' = [ret EXCEPT ![i] = FailedOutcome]
          /\ exc' = [exc EXCEPT ![i] = None]
     ELSE UNCHANGED <<ret, exc>>
  /\ Goto(i, "release")
  /\ UNCHANGED <<config, fsvars, mainvars, semvars, resp, hasOverlay, bytes_downloaded, reg, faults>>

\* ---- process_and_update -----------------------------------------------------
\* lines 321-324, `stats.x += 1`: the read of the counter
CountRead(i) ==
  /\ pc[i] = "count_read" /\ Sched(i)
  /\ reg' = [reg EXCEPT ![i] = IF ret[i].success THEN stats.downloaded ELSE stats.failed]
  /\ Goto(i, "count_write")
  /\ UNCHANGED <<config, fsvars, mainvars, semvars, resp, hasOverlay, bytes_downloaded, exc, ret, hist, faults>>

\* lines 321-324, `stats.x += 1`: the write of the counter
CountWrite(i) ==
  /\ pc[i] = "count_write" /\ Sched(i)
  /\ stats' = Counted(stats, ret[i].success, reg[i])
  /\ Goto(i, "mb_read")
  /\ UNCHANGED <<config, fsvars, to_download, mainpc, idx, reported, semvars, locals, hist, faults>>

\* line 325, `stats.mb += ...`: the read
MbRead(i) ==
  /\ pc[i] = "mb_read" /\ Sched(i)
  /\ reg' = [reg EXCEPT ![i] = stats.mb]
  /\ Goto(i, "mb_write")
  /\ UNCHANGED <<config, fsvars, mainvars, semvars, resp, hasOverlay, bytes_downloaded, exc, ret, hist, faults>>

\* lines 325-330: the write, the progress bar, and the coroutine ends
MbWrite(i) ==
  /\ pc[i] = "mb_write" /\ Sched(i)
  /\ stats' = [stats EXCEPT !.mb = reg[i] + ret[i].bytes]
  /\ H(i, "counted", hist[i].counted + 1)
  /\ reg' = [reg EXCEPT ![i] = 0]
  /\ Goto(i, "done")
  /\ UNCHANGED <<config, fsvars, to_download, mainpc, idx, reported, semvars, resp, hasOverlay,
                 bytes_downloaded, exc, ret, faults>>

\* ---- the system -------------------------------------------------------------
TaskStep(i) ==
  \/ Acquire(i) \/ AcquireWoken(i) \/ FetchStart(i) \/ FetchReturn(i)
  \/ Classify(i) \/ ZipOpen(i) \/ Dispatch(i) \/ ImgDecode(i) \/ ImgSave(i)
  \/ VidTmp(i) \/ VidOverlay(i) \/ MergeReturn(i) \/ MergeCopy(i)
  \/ FallbackWrite(i) \/ VidMainOnly(i) \/ TmpCleanup(i) \/ Bytes(i)
  \/ WritePlain(i) \/ Utime(i) \/ ExifInsert(i) \/ ExifUtime(i)
  \/ VmetaReturn(i) \/ VmetaReplace(i) \/ VmetaUtime(i) \/ ReturnOk(i)
  \/ ClientExit(i) \/ Except(i) \/ Release(i)
  \/ CountRead(i) \/ CountWrite(i) \/ MbRead(i) \/ MbWrite(i)

Next ==
  \/ ScanRecord \/ ReturnEarly \/ Gather \/ GatherReturn \/ Report
  \/ \E i \in Items : TaskStep(i)

Spec == Init /\ [][Next]_vars


\* ---- properties -------------------------------------------------------------
\* an execution is admitted from the moment acquire() returned to release()
Admitted(i) ==
  pc[i] \notin {"none", "start", "wait_sem", "woken",
                "count_read", "count_write", "mb_read", "mb_write", "done", "raised"}

\* download_memory has returned or is about to leave the semaphore block
AfterOutcome(i) ==
  pc[i] \in {"release", "count_read", "count_write", "mb_read", "mb_write", "done"}

\* the exception execution i ended with, pending or already handled
ErrOf(i) == IF exc[i] # None THEN exc[i] ELSE hist[i].err

RECURSIVE SumBytes(_)
SumBytes(S) ==
  IF S = {} THEN 0
  ELSE LET i == CHOOSE x \in S : TRUE IN ret[i].bytes + SumBytes(S \ {i})

\* an execution holds a permit from the moment the semaphore gave it one (a
\* woken waiter has it before acquire() returns) until release()
HoldsPermit(i) == Admitted(i) \/ pc[i] = "woken"

\* C1: at no state do more than K executions hold a permit, that is, are
\* between acquire and release
C1_GateBound == Cardinality({i \in Items : HoldsPermit(i)}) <= max_concurrent

\* the gate is full of admitted executions and another one is kept waiting
C1_Witness ==
  /\ Cardinality({i \in Items : Admitted(i)}) = max_concurrent
  /\ \E j \in Items : pc[j] = "wait_sem"

\* C2: once the scan is over and every scheduled execution has completed,
\* downloaded + skipped + failed equals the number of records
C2_CountInvariant ==
  (idx > NumItems /\ \A i \in Scheduled : pc[i] = "done")
    => stats.downloaded + stats.skipped + stats.failed = NumItems

\* a finished run with a failed item next to a downloaded or skipped one
C2_Witness ==
  /\ reported
  /\ stats.failed >= 1
  /\ stats.downloaded + stats.skipped >= 1

\* C3: a record whose file existed when it was scanned with skip-existing on is
\* counted skipped once and nothing else happens for it: it is not scheduled,
\* takes no permit, fetches nothing, writes nothing, and the file stays as it was
C3_SkipExisting ==
  /\ \A i \in Items :
       (i < idx /\ skip_existing /\ hist[i].existed) =>
         /\ hist[i].skipped = 1
         /\ i \notin Scheduled
         /\ pc[i] = "none"
         /\ hist[i].acquires = 0
         /\ hist[i].fetches = 0
         /\ hist[i].writes = 0
         /\ files[output_path(i)] = OldFile
  /\ stats.skipped = Cardinality({i \in Items : i < idx /\ skip_existing /\ hist[i].existed})

\* a finished run in which one record was skipped and another one downloaded
C3_Witness ==
  /\ reported
  /\ \E i, j \in Items : hist[i].skipped = 1 /\ hist[i].existed /\ pc[j] = "done"

\* C4: an execution whose fetch failed never writes to its output path and its
\* outcome is (failed, 0 bytes)
C4_FetchFailure ==
  \A i \in Items :
    ErrOf(i) \in FetchErrors =>
      /\ hist[i].writes = 0
      /\ files[output_path(i)].by # i
      /\ AfterOutcome(i) => ret[i] = Ret(FALSE, 0)

\* an execution that ended after a failed fetch
C4_Witness == \E i \in Items : hist[i].err \in FetchErrors /\ pc[i] = "done"

\* C5: an execution whose payload is classified composite and has no entry
\* name containing "-main" writes no file and its outcome is failed
NoMainEntry(r) == \A k \in DOMAIN r.names : ~Contains(S_DashMain, r.names[k])

C5_NoMain ==
  \A i \in Items :
    (resp[i] # NoPayload /\ is_zip(resp[i]) /\ NoMainEntry(resp[i])) =>
      /\ hist[i].writes = 0
      /\ files[output_path(i)].by # i
      /\ tmpdir[i] = {}
      /\ AfterOutcome(i) => ret[i] = Ret(FALSE, 0)

\* an execution that ended on an archive that opens and has no base entry
C5_Witness ==
  \E i \in Items :
    /\ resp[i].zipOk /\ NoMainEntry(resp[i])
    /\ hist[i].err = "ValueError_NoMain"
    /\ pc[i] = "done"

C7_MetadataBestEffort ==
  \A i \in Items :
    hist[i].metaRes = "failed" =>
      /\ hist[i].persisted # None
      /\ exc[i] = None /\ hist[i].err = None
      /\ AfterOutcome(i) => ret[i] = Ret(TRUE, resp[i].len)

\* a finished item whose metadata step failed
C7_Witness == \E i \in Items : hist[i].metaRes = "failed" /\ pc[i] = "done"

\* C8: no exception leaves download_memory: no task ends by raising, the run is
\* never aborted, every execution that left the gate has an outcome (failed
\* when it raised), and the run ends only with every scheduled task done
C8_NoAbort ==
  /\ mainpc # "aborted"
  /\ \A i \in Items :
       /\ pc[i] # "raised"
       /\ AfterOutcome(i) => ret[i].set /\ exc[i] = None
       /\ hist[i].err # None => ret[i] = Ret(FALSE, 0)
  /\ mainpc \in {"report", "end"} => \A i \in Scheduled : pc[i] = "done" /\ ret[i].set

\* a finished run in which one item failed on a file write and another succeeded
C8_Witness ==
  /\ reported
  /\ \E i, j \in Items : hist[i].err = "OSError" /\ ret[j].success /\ pc[j] = "done"

\* C9: an execution between the read and the write of a Stats update holds the
\* loop, and every increment arrives: the counters equal the number of
\* executions that wrote them, the byte total the sum over the finished ones
C9_StatsSerialized ==
  /\ \A i \in Items :
       pc[i] \in {"count_write", "mb_read", "mb_write"} => running = i
  /\ stats.downloaded =
       Cardinality({i \in Items : pc[i] \in {"mb_read", "mb_write", "done"} /\ ret[i].success})
  /\ stats.failed =
       Cardinality({i \in Items : pc[i] \in {"mb_read", "mb_write", "done"} /\ ~ret[i].success})
  /\ stats.mb = SumBytes({i \in Items : pc[i] = "done"})

\* one execution is between read and write while another one has its outcome
\* and waits to be resumed
C9_Witness ==
  \E i, j \in Items :
    /\ i # j
    /\ pc[i] = "count_write"
    /\ pc[j] = "client_exit" /\ ret[j].set

\* C10 as stated: while an execution is inside an external-tool invocation, an
\* admitted sibling that waits for the loop can take a step
C10_SiblingsNotBlocked ==
  \A i, j \in Items :
    (i # j /\ pc[i] \in {"merge_run", "vmeta_run"} /\ pc[j] \in {"get", "client_exit"})
      => ENABLED TaskStep(j)

\* C11: once an execution has ended, with any outcome, nothing of what it
\* created temporarily is left: its merge directory is gone and the temporary
\* output path of the metadata remux holds no file of its making.
C11_TempRemoved ==
  \A i \in Items :
    AfterOutcome(i) => tmpdir[i] = {} /\ temps[temp_path(i)].by # i

\* C12 as stated: every run that ends without a systemic failure has printed
\* the final summary (counts and throughput), whatever was skipped.
C12_Original == mainpc = "end" => reported

\* C12: a run that ends without a systemic failure has printed the final
\* summary exactly when at least one record was scheduled; when every record
\* was skipped the run ends after the scan, with every record counted skipped,
\* no execution started and no summary.
C12_Summary ==
  mainpc = "end" =>
    /\ reported <=> to_download # <<>>
    /\ reported => \A i \in Scheduled : pc[i] = "done"
    /\ ~reported => /\ stats.skipped = NumItems
                    /\ \A i \in Items : pc[i] = "none"

C12_Witness ==
  /\ mainpc = "end" /\ reported
  /\ stats.skipped = 1 /\ stats.downloaded + stats.failed = NumItems - 1

\* records i and j differ in capture second or in file extension
DistinctName(i, j) ==
  \/ memories[i].date # memories[j].date
  \/ (Lower(memories[i].media_type) = S_image) # (Lower(memories[j].media_type) = S_image)

\* C13 as stated: in any run the file an execution has persisted at its output
\* path is never overwritten or altered by another execution.
C13_Original ==
  \A i \in Items :
    hist[i].persisted # None => files[output_path(i)].by = i

\* C13: an execution whose record differs from every other scheduled record
\* in capture second or in extension is independent of the others: what it
\* persisted stays at its output path, written by it alone, and its temporary
\* output path is touched by no other execution.  (Two scheduled records with
\* the same second and extension share one output path.)
C13_Independent ==
  \A i \in Items :
    (\A j \in Scheduled \ {i} : DistinctName(i, j)) =>
      /\ files[output_path(i)].by \in {0, i}
      /\ temps[temp_path(i)].by \in {0, i}
      /\ hist[i].persisted # None =>
            /\ files[output_path(i)].by = i
            /\ files[output_path(i)].data = hist[i].persisted

C13_Witness ==
  \E i, j \in Scheduled :
    /\ i # j /\ DistinctName(i, j)
    /\ pc[i] = "done" /\ pc[j] = "done"
    /\ hist[i].persisted # None /\ hist[j].persisted # None

\* ---- the Payload Classifier on its own --------------------------------------
\* Content-Type headers a server can send (<<>>: no header)
S_ZipMimeUpper == <<65, 80, 80, 76, 73, 67, 65, 84, 73, 79, 78, 47, 90, 73, 80>>
S_ZipMimeParams == <<97, 112, 112, 108, 105, 99, 97, 116, 105, 111, 110, 47, 122, 105, 112, 59, 32, 99, 104, 97, 114, 115, 101, 116, 61, 98, 105, 110, 97, 114, 121>>
S_ZipMimeCut == <<97, 112, 112, 108, 105, 99, 97, 116, 105, 111, 110, 47, 122, 105>>
S_SpaceZipMime == <<32, 97, 112, 112, 108, 105, 99, 97, 116, 105, 111, 110, 47, 122, 105, 112>>
S_XZip == <<97, 112, 112, 108, 105, 99, 97, 116, 105, 111, 110, 47, 120, 45, 122, 105, 112, 45, 99, 111, 109, 112, 114, 101, 115, 115, 101, 100>>
S_Octet == <<97, 112, 112, 108, 105, 99, 97, 116, 105, 111, 110, 47, 111, 99, 116, 101, 116, 45, 115, 116, 114, 101, 97, 109>>
ContentTypes == {<<>>, S_ZipMime, S_ZipMimeMixed, S_ZipMimeUpper, S_ZipMimeParams,
                 S_ZipMimeCut, S_SpaceZipMime, S_XZip, S_Octet, S_Jpeg}

\* content[:4] of a body: the local-file signature, a JPEG, a body of three
\* bytes, the signature of an empty archive, near misses, an empty body
Heads == {PkMagic, JfifMagic, <<80, 75, 3>>, <<80, 75, 5, 6>>, <<80, 75, 3, 3>>,
          <<112, 107, 3, 4>>, <<>>}

Responses == {[ctype |-> c, head |-> h, len |-> Len(h), zipOk |-> FALSE,
               names |-> <<>>, overlayLen |-> 0] : c \in ContentTypes, h \in Heads}

\* execution 1 has been admitted and its request has returned with a 2xx
\* response (lines 185-187); the classifier of line 190 is next
InitClassify ==
  /\ memories = [i \in Items |-> [date |-> 1, media_type |-> S_Image, latitude |-> NoCoord, longitude |-> NoCoord]]
  /\ max_concurrent = 1
  /\ add_exif = TRUE
  /\ skip_existing = FALSE
  /\ files = [p \in Paths |-> Absent]
  /\ temps = [p \in Paths |-> Absent]
  /\ tmpdir = [i \in Items |-> {}]
  /\ stats = [downloaded |-> 0, skipped |-> 0, failed |-> 0, mb |-> 0]
  /\ to_download = [k \in 1..NumItems |-> k]
  /\ mainpc = "gather"
  /\ idx = NumItems + 1
  /\ pc = [i \in Items |-> IF i = 1 THEN "classify" ELSE "wait_sem"]
  /\ running = 1
  /\ sem_value = Semaphore(max_concurrent) - 1
  /\ sem_waiters = [k \in 1..(NumItems - 1) |-> k + 1]
  /\ \E r \in Responses : resp = [i \in Items |-> IF i = 1 THEN r ELSE NoPayload]
  /\ hasOverlay = [i \in Items |-> FALSE]
  /\ bytes_downloaded = [i \in Items |-> 0]
  /\ exc = [i \in Items |-> None]
  /\ ret = [i \in Items |-> NoRet]
  /\ reg = [i \in Items |-> 0]
  /\ hist = [i \in Items |-> IF i = 1 THEN [Hist0 EXCEPT !.acquires = 1, !.fetches = 1]
                                       ELSE Hist0]
  /\ reported = FALSE
  /\ faults = 0

NextClassify == \E i \in Items : Classify(i)

SpecClassify == InitClassify /\ [][NextClassify]_vars

\* the archive MIME prefix, letter by letter in either case
IsZipPrefix(c) ==
  /\ Len(c) >= 15
  /\ c[1] \in {97, 65} /\ c[2] \in {112, 80} /\ c[3] \in {112, 80} /\ c[4] \in {108, 76}
  /\ c[5] \in {105, 73} /\ c[6] \in {99, 67} /\ c[7] \in {97, 65} /\ c[8] \in {116, 84}
  /\ c[9] \in {105, 73} /\ c[10] \in {111, 79} /\ c[11] \in {110, 78} /\ c[12] = 47
  /\ c[13] \in {122, 90} /\ c[14] \in {105, 73} /\ c[15] \in {112, 80}

\* the first four bytes are 50 4B 03 04
HasPkSignature(h) == Len(h) >= 4 /\ h[1] = 80 /\ h[2] = 75 /\ h[3] = 3 /\ h[4] = 4

\* C14: the classifier takes the composite branch if and only if the declared
\* content-type, compared without regard to case and possibly absent, begins
\* with the archive MIME prefix or the body begins with 50 4B 03 04; a body
\* with that signature is composite whatever the content-type.
C14_Classifier ==
  \A i \in Items :
    pc[i] \in {"zip_open", "write_plain"} =>
      /\ pc[i] = "zip_open" <=> (IsZipPrefix(resp[i].ctype) \/ HasPkSignature(resp[i].head))
      /\ HasPkSignature(resp[i].head) => pc[i] = "zip_open"

C14_Witness ==
  \E i \in Items :
    /\ pc[i] = "zip_open"
    /\ resp[i].head = PkMagic /\ resp[i].ctype = S_Jpeg

\* ---- the coordinate conversion on its own -----------------------------------
NumLatitudes == 30

\* latitudes around 37.7749 north and south, one millionth of a degree apart
Latitudes == {<<37774900 + k>> : k \in 0..(NumLatitudes - 1)}
               \cup {<<0 - (37774900 + k)>> : k \in 0..(NumLatitudes - 1)}
Longitudes == {NoCoord, <<0 - 122419400>>}

\* execution 1 has persisted a plain image and has called add_exif_data
\* (line 273) for a record with coordinates
InitGps ==
  /\ \E la \in Latitudes, lo \in Longitudes :
       memories = [i \in Items |-> [date |-> 1, media_type |-> S_Image,
                                    latitude |-> la, longitude |-> lo]]
  /\ max_concurrent = 1
  /\ add_exif = TRUE
  /\ skip_existing = FALSE
  /\ files = [p \in Paths |-> IF p = <<1, ".jpg">> THEN Asset("content", 1) ELSE Absent]
  /\ temps = [p \in Paths |-> Absent]
  /\ tmpdir = [i \in Items |-> {}]
  /\ stats = [downloaded |-> 0, skipped |-> 0, failed |-> 0, mb |-> 0]
  /\ to_download = [k \in 1..NumItems |-> k]
  /\ mainpc = "gather"
  /\ idx = NumItems + 1
  /\ pc = [i \in Items |-> IF i = 1 THEN "exif" ELSE "wait_sem"]
  /\ running = 1
  /\ sem_value = Semaphore(max_concurrent) - 1
  /\ sem_waiters = [k \in 1..(NumItems - 1) |-> k + 1]
  /\ resp = [i \in Items |-> IF i = 1
                THEN [ctype |-> S_Jpeg, head |-> JfifMagic, len |-> 1, zipOk |-> FALSE,
                      names |-> <<>>, overlayLen |-> 0]
                ELSE NoPayload]
  /\ hasOverlay = [i \in Items |-> FALSE]
  /\ bytes_downloaded = [i \in Items |-> IF i = 1 THEN 1 ELSE 0]
  /\ exc = [i \in Items |-> None]
  /\ ret = [i \in Items |-> NoRet]
  /\ reg = [i \in Items |-> 0]
  /\ hist = [i \in Items |-> IF i = 1
                THEN [Hist0 EXCEPT !.acquires = 1, !.fetches = 1, !.writes = 1,
                                   !.persisted = "content", !.metaCalls = 1]
                ELSE Hist0]
  /\ reported = FALSE
  /\ faults = 0

NextGps == \E i \in Items : ExifInsert(i)

SpecGps == InitGps /\ [][NextGps]_vars

\* the seconds of a coordinate v, in millionths of a second
SecondsOf(v) == ((Abs(v) % Micro) * 60 % Micro) * 60

\* C15: the latitude written is degrees, minutes and seconds with the seconds
\* rounded to the nearest hundredth over the denominator 100; decoding the
\* triple gives the coordinate back within 0.0001 degrees; 37.7749 is written
\* as (37, 46, 2964/100).
C15_Rounded ==
  \A i \in Items :
    hist[i].gps # <<>> =>
      LET v == memories[i].latitude[1]
          t == hist[i].gps[1].lat
      IN /\ t[1] = <<Abs(v) \div Micro, 1>>
         /\ t[2] = <<((Abs(v) % Micro) * 60) \div Micro, 1>>
         /\ t[3] = <<(SecondsOf(v) + 5000) \div 10000, 100>>
         /\ Abs(9 * (Abs(v) % Micro) - (150000 * t[2][1] + 25 * t[3][1])) <= 900
         /\ v = 37774900 => t = <<<<37, 1>>, <<46, 1>>, <<2964, 100>>>>

\* C16 as stated: an execution that has released its slot has had its outcome
\* and bytes recorded in Stats.
C16_Original ==
  \A i \in Items : hist[i].releases > 0 => hist[i].counted > 0

\* C16: the slot is released first and the outcome and bytes are recorded
\* right after: an execution that has released and is not yet counted is the
\* running coroutine, inside the update of Stats, so no other execution takes
\* a step in between; nothing is recorded before the release, and a finished
\* execution is counted.
C16_ReleaseThenCount ==
  \A i \in Items :
    /\ (hist[i].releases > 0 /\ hist[i].counted = 0) =>
          /\ pc[i] \in {"count_read", "count_write", "mb_read", "mb_write"}
          /\ running = i
    /\ hist[i].counted > 0 => hist[i].releases > 0
    /\ pc[i] = "done" => hist[i].counted = 1 /\ hist[i].releases = 1

C16_Witness ==
  \E i, j \in Items :
    /\ pc[i] = "count_write" /\ hist[i].releases = 1 /\ hist[i].counted = 0
    /\ pc[j] = "woken"

\* ---- the run under a fair event loop ----------------------------------------
\* The loop keeps running whatever is ready: download_all continues when it
\* can, and a coroutine that can take a step (its request or its subprocess
\* has returned, its semaphore future is set) is resumed.
MainStep == ScanRecord \/ ReturnEarly \/ Gather \/ GatherReturn \/ Report

FairSpec ==
  /\ Spec
  /\ WF_vars(MainStep)
  /\ \A i \in Items : WF_vars(TaskStep(i))

\* C17: under a fair loop, with every request and every tool invocation
\* returning, the run reaches its end state, where every scheduled execution
\* has been admitted by the gate once, has completed and is counted, and
\* downloaded + skipped + failed is the number of records.
C17_RunCompletes ==
  <>(/\ mainpc = "end"
     /\ \A i \in Scheduled :
          pc[i] = "done" /\ hist[i].acquires = 1 /\ hist[i].counted = 1
     /\ stats.downloaded + stats.skipped + stats.failed = NumItems)

C17_Witness ==
  /\ mainpc = "end"
  /\ Len(to_download) > max_concurrent
  /\ \A i \in Scheduled : pc[i] = "done" /\ hist[i].acquires = 1 /\ hist[i].counted = 1

\* the execution is inside add_exif_data or set_video_metadata
InMetadataWriter(i) ==
  pc[i] \in {"exif", "exif_utime", "vmeta_run", "vmeta_replace", "vmeta_utime"}

\* C18: the Metadata Writer is called for an item at most once, only when it
\* is enabled, only after the item's asset has been written to its output
\* path and before the item's outcome exists, and an item whose outcome is
\* failed never had it called.
C18_MetadataOrder ==
  \A i \in Items :
    /\ hist[i].metaCalls <= 1
    /\ hist[i].metaCalls = 1 => add_exif /\ hist[i].persisted # None
    /\ InMetadataWriter(i) =>
          /\ hist[i].metaCalls = 1
          /\ ~ret[i].set
          /\ files[output_path(i)] # Absent
    /\ (ret[i].set /\ ~ret[i].success) => hist[i].metaCalls = 0

C18_Witness ==
  \E i, j \in Items :
    /\ pc[i] = "done" /\ hist[i].metaCalls = 1 /\ hist[i].metaRes = "failed"
    /\ ret[i].success
    /\ pc[j] = "done" /\ hist[j].metaCalls = 1 /\ hist[j].metaRes = "ok"

\* C19: from the call of the video Metadata Writer to the return of the
\* execution the output path holds the asset as it was persisted or the
\* complete remuxed copy, never anything else; the copy is there only after
\* the remux succeeded and the temporary file was moved over it, and after a
\* failed remux the file is the asset as persisted.
C19_AtomicReplace ==
  \A i \in Items :
    (media(i) = S_video /\ hist[i].metaCalls = 1
       /\ pc[i] \in {"vmeta_run", "vmeta_replace", "vmeta_utime", "return_ok"}) =>
      LET f == files[output_path(i)]
          orig == Asset(hist[i].persisted, i)
      IN /\ f \in {orig, [orig EXCEPT !.meta = TRUE]}
         /\ pc[i] \in {"vmeta_run", "vmeta_replace"} => f = orig
         /\ f.meta => hist[i].remux = "ok" /\ temps[temp_path(i)] = Absent
         /\ hist[i].remux = "failed" => f = orig

C19_Witness ==
  \E i \in Items :
    /\ media(i) = S_video /\ pc[i] = "return_ok"
    /\ hist[i].remux = "failed"
    /\ temps[temp_path(i)] = Asset("partial", i)
    /\ files[output_path(i)] = Asset(hist[i].persisted, i)

\* C20 as stated: at every state the free permits and the executions inside
\* the gated block add up to K, and all K are free when the run has ended.
C20_Original ==
  /\ sem_value + Cardinality({i \in Items : Admitted(i)}) = max_concurrent
  /\ mainpc = "end" => sem_value = max_concurrent

\* C20: at every state the free permits and the executions holding one (the
\* admitted ones and a waiter that release() has handed the permit to) add up
\* to K; an execution that has left download_memory, with a successful or a
\* failed outcome, has acquired once and released once; when the run has
\* ended all K permits are free and nobody waits.
C20_PermitsConserved ==
  /\ sem_value >= 0
  /\ sem_value + Cardinality({i \in Items : HoldsPermit(i)}) = max_concurrent
  /\ \A i \in Items :
       pc[i] \in {"count_read", "count_write", "mb_read", "mb_write", "done"} =>
         hist[i].acquires = 1 /\ hist[i].releases = 1
  /\ mainpc = "end" => sem_value = max_concurrent /\ sem_waiters = <<>>

C20_Witness ==
  /\ mainpc = "end" /\ sem_value = max_concurrent
  /\ \E i, j \in Scheduled :
       /\ ret[i].set /\ ~ret[i].success /\ hist[i].releases = 1
       /\ ret[j].set /\ ret[j].success /\ hist[j].releases = 1

====
